---- MODULE Spec2Model ----
(***************************************************************************)
(* A model of the startup job scraper: the retrying element lookup of      *)
(* Driver, the StartupList orchestrator (find_startups, create_startups,   *)
(* scrape_startups, save_results), Startup (name derivation, find_jobs,    *)
(* has_job), UrlProvider, and the driver script scrape.py.                 *)
(*                                                                         *)
(* Python strings that the code inspects (urls, keywords, page text, the   *)
(* lines of the result file) are sequences of one-character strings.       *)
(* The browser and the web are the environment.  What a crawl of the       *)
(* directory yields and the order in which a set of links is iterated are  *)
(* chosen on every call; the startups' homepages and job pages are a fixed *)
(* stub web (Homepage, PageBody).                                          *)
(***************************************************************************)
EXTENDS Integers, Sequences, FiniteSets

VARIABLES
  \* ---- one run of Driver.find_element_ ----
  retry,        \* the retry argument
  k,            \* the stubbed lookup raises NoSuchElementException on its first k calls
  always,       \* TRUE: the stubbed lookup raises on every call
  cycle,        \* the local variable cycle
  lookups,      \* number of calls of the underlying find_element_<how> made so far
  lpc,          \* "idle" | "loop" | "returned"
  element,      \* the value returned: "element" | "None" ("unset" before the return)
  \* ---- a StartupList and its caller ----
  startup_urls, \* StartupList.startup_urls
  startups,     \* the list content of the StartupList: records [name, url, finds]
  file,         \* the lines of the result file; "unwritten" before the first save
  raised,       \* the exception the last call raised, "none" when it returned
  op,           \* the last operation called
  obs,          \* the arguments of the last call (of find_startups and find_jobs)
  pc,           \* "interactive" (library use) or the position of scrape.py
  calls         \* number of calls made in this session

locvars == <<retry, k, always, cycle, lookups, lpc, element>>
orchvars == <<startup_urls, startups, file, raised, op, obs, pc, calls>>
vars == <<retry, k, always, cycle, lookups, lpc, element,
          startup_urls, startups, file, raised, op, obs, pc, calls>>

(***************************************************************************)
(* Bounds of the model.                                                    *)
(***************************************************************************)
MaxRetry == 4      \* retry is drawn from 0..MaxRetry
MaxFails == 5      \* k is drawn from 0..MaxFails
MaxCycle == 6      \* the loop of find_element_ is followed while cycle <= MaxCycle
MaxLen == 2        \* startup_urls and the collection are followed up to this length
MaxCalls == 4      \* calls made in one session

(***************************************************************************)
(* Driver.find_element_, step by step.                                     *)
(***************************************************************************)
\* the stubbed find_element_<how>(what) raises NoSuchElementException on call number n
LookupRaises(n) == always \/ n <= k

\* line 56: the test that ends the retrying
BudgetSpent(c, r) == c = r

\* lines 52-54: the lookup succeeds and the element is returned
LookupFound ==
  /\ lpc = "loop"
  /\ ~LookupRaises(lookups + 1)
  /\ lookups' = lookups + 1
  /\ element' = "element"
  /\ lpc' = "returned"
  /\ UNCHANGED <<retry, k, always, cycle>>
  /\ UNCHANGED orchvars

\* lines 52-57: the lookup raises and cycle == retry: None is returned
NotFoundGiveUp ==
  /\ lpc = "loop"
  /\ LookupRaises(lookups + 1)
  /\ BudgetSpent(cycle, retry)
  /\ lookups' = lookups + 1
  /\ element' = "None"
  /\ lpc' = "returned"
  /\ UNCHANGED <<retry, k, always, cycle>>
  /\ UNCHANGED orchvars

\* lines 52-59: the lookup raises and cycle != retry: cycle += 1 and loop again
NotFoundRetry ==
  /\ lpc = "loop"
  /\ LookupRaises(lookups + 1)
  /\ ~BudgetSpent(cycle, retry)
  /\ cycle <= MaxCycle
  /\ lookups' = lookups + 1
  /\ cycle' = cycle + 1
  /\ UNCHANGED <<retry, k, always, lpc, element>>
  /\ UNCHANGED orchvars

\* find_element_ as a function, for a lookup that raises on its first `failures`
\* calls and then succeeds: cycle counts the calls, so None is returned when one
\* of the raising calls is the one that spends the budget
find_element_(failures, budget) ==
  IF budget \in 1..failures THEN "None" ELSE "element"

(***************************************************************************)
(* Strings.                                                                *)
(***************************************************************************)
\* startup homepage urls
UrlA == <<"h","t","t","p",":","/","/","a",".","b","e">>
UrlB == <<"h","t","t","p",":","/","/","w","w","w",".","b",".","i","o">>
UrlBad == <<"h","t","t","p",":","/","/","c">>     \* no "." after the "/"
StartupUrls == {UrlA, UrlB, UrlBad}

\* job page urls (the href values found on a homepage)
JobsUrl == <<"u","/","j">>
CareerUrl == <<"u","/","c">>
DeadUrl == <<"u","/","d">>

\* str.lower() on the characters used here
LowerChar(c) == CASE c = "M" -> "m" [] c = "L" -> "l" [] c = "A" -> "a"
                  [] c = "I" -> "i" [] OTHER -> c
lower(s) == [i \in 1..Len(s) |-> LowerChar(s[i])]

\* s.replace(old, new): every non-overlapping occurrence, leftmost first
RECURSIVE replace(_, _, _)
replace(s, old, new) ==
  IF Len(s) < Len(old) THEN s
  ELSE IF SubSeq(s, 1, Len(old)) = old
       THEN new \o replace(SubSeq(s, Len(old) + 1, Len(s)), old, new)
       ELSE <<s[1]>> \o replace(Tail(s), old, new)

\* re.findall("\/.+\.", url): the set of start positions at which the pattern
\* matches ("/" then one or more characters then ".")
SlashDotStarts(url) ==
  {i \in 1..Len(url) : url[i] = "/" /\ \E j \in (i + 2)..Len(url) : url[j] = "."}

\* the first match: leftmost start, and ".+" is greedy, so up to the last "."
FirstSlashDotMatch(url) ==
  LET i == CHOOSE a \in SlashDotStarts(url) : \A b \in SlashDotStarts(url) : a <= b
      j == CHOOSE a \in (i + 2)..Len(url) :
             url[a] = "." /\ \A b \in (a + 1)..Len(url) : url[b] # "."
  IN SubSeq(url, i, j)

\* Startup._get_name_from_url; "IndexError" stands for the [0] of an empty list
NameDerivable(url) == SlashDotStarts(url) # {}
_get_name_from_url(url) ==
  replace(replace(replace(FirstSlashDotMatch(url), <<"w","w","w">>, <<>>),
                  <<"/","/">>, <<>>),
          <<".">>, <<>>)

\* Startup.__init__
NewStartup(url) == [name |-> _get_name_from_url(url), url |-> url, finds |-> <<>>]

(***************************************************************************)
(* The caller: library use, or the script scrape.py.                       *)
(***************************************************************************)
\* scrape.py, lines 5, 6, 7 and 11: the method each line calls on the StartupList
Script == [line5 |-> "locate_startups", line6 |-> "create_startups",
           line7 |-> "scrape_startups", line11 |-> "save_results"]
NextLine == [line5 |-> "line6", line6 |-> "line7", line7 |-> "line11",
             line11 |-> "finished"]

\* the methods class StartupList defines
StartupListMethods == {"find_startups", "create_startups", "scrape_startups",
                       "save_results"}

\* the caller calls method m now
Calls(m) ==
  /\ calls < MaxCalls
  /\ \/ pc = "interactive"
     \/ pc \in DOMAIN Script /\ Script[pc] = m

\* the bookkeeping of a call of m that raised exc ("none": it returned); an
\* exception ends the script, an interactive caller sees it and goes on
Called(m, exc) ==
  /\ op' = m
  /\ raised' = exc
  /\ calls' = calls + 1
  /\ pc' = IF pc = "interactive" THEN pc
           ELSE IF exc = "none" THEN NextLine[pc] ELSE "aborted"

\* obs after a call without recorded arguments
NoObs == [target |-> 0, names |-> <<>>, link_texts |-> <<>>, keywords |-> <<>>,
          fresh |-> FALSE]

\* a call of a name class StartupList (a list) does not define: AttributeError
CallUndefined(m) ==
  /\ Calls(m)
  /\ m \notin StartupListMethods
  /\ Called(m, "AttributeError")
  /\ obs' = NoObs
  /\ UNCHANGED <<startup_urls, startups, file>>
  /\ UNCHANGED locvars

(***************************************************************************)
(* UrlProvider.                                                            *)
(***************************************************************************)
\* UrlProvider.names_dic: the keys of the mapping (the urls are not inspected)
names_dic == {"startupranking", "startupsbe"}

\* the parameters of _UrlProviderMethods._get_urls_<name> (lines 294 and 331)
MethodParams(name) ==
  IF name = "startupranking" THEN {"driver", "base_url", "depth"} ELSE {}

\* the keyword arguments get_urls passes (lines 277-278)
GetUrlsKwargs == {"driver", "base_url", "depth"}

\* the retry budget of the lookup of a listing container (line 321)
ContainerRetry == 1000

\* what the web gives one crawl: the number of times the lookup of the listing
\* container raises before it succeeds, and the urls the listings then hold
NoCrawl == [failures |-> ContainerRetry, urls |-> <<>>]
Crawls ==
  {[failures |-> ContainerRetry - 1, urls |-> u] :
     u \in {<<>>, <<UrlA, UrlB>>} \cup {<<url>> : url \in StartupUrls}}
    \cup {NoCrawl}

\* one crawl for each name of a call of find_startups; the names that lead to no
\* crawl (another source, or a depth without pages) get NoCrawl
CrawlsFor(namelist, depth) ==
  {c \in [1..Len(namelist) -> Crawls] :
     \A n \in 1..Len(namelist) :
       (namelist[n] # "startupranking" \/ depth <= 0) => c[n] = NoCrawl}

\* _get_urls_startupranking: with depth <= 0 no page is visited and the result is
\* empty; else a container that is never found raises (line 323)
_get_urls_startupranking(depth, crawl) ==
  IF depth <= 0 THEN [exc |-> "none", urls |-> <<>>]
  ELSE IF find_element_(crawl.failures, ContainerRetry) = "None"
       THEN [exc |-> "NoSuchElementException", urls |-> <<>>]
       ELSE [exc |-> "none", urls |-> crawl.urls]

\* _get_urls_startupsbe (lines 331-332)
_get_urls_startupsbe == [exc |-> "none", urls |-> <<>>]

\* UrlProvider.get_urls: map_url raises KeyError for a name outside names_dic
\* (line 269); the method found by name is called with the keyword arguments
\* driver, base_url and depth, a TypeError when it does not take them
get_urls(name, depth, crawl) ==
  IF name \notin names_dic THEN [exc |-> "KeyError", urls |-> <<>>]
  ELSE IF GetUrlsKwargs # MethodParams(name) THEN [exc |-> "TypeError", urls |-> <<>>]
  ELSE IF name = "startupranking" THEN _get_urls_startupranking(depth, crawl)
  ELSE _get_urls_startupsbe

(***************************************************************************)
(* StartupList.                                                            *)
(***************************************************************************)
\* the names argument: a str, or a list of str
NamesArgs ==
  {[type |-> "str", val |-> "startupranking"],
   [type |-> "str", val |-> "startupsbe"],
   [type |-> "list", val |-> <<>>],
   [type |-> "list", val |-> <<"startupranking">>],
   [type |-> "list", val |-> <<"startupsbe">>],
   [type |-> "list", val |-> <<"crunchbase">>],
   [type |-> "list", val |-> <<"startupranking", "startupranking">>],
   [type |-> "list", val |-> <<"startupranking", "startupsbe">>],
   [type |-> "list", val |-> <<"startupranking", "crunchbase">>]}
Depths == {0, 3}

\* line 91
NamesList(names) == IF names.type = "str" THEN <<names.val>> ELSE names.val

\* lines 92-94: the loop over the names from position i on, urls being the value
\* of startup_urls so far; an exception ends the loop and keeps what was extended
RECURSIVE ExtendFrom(_, _, _, _, _)
ExtendFrom(namelist, i, depth, crawls, urls) ==
  IF i > Len(namelist) THEN [exc |-> "none", urls |-> urls]
  ELSE LET r == get_urls(namelist[i], depth, crawls[i])
       IN IF r.exc # "none" THEN [exc |-> r.exc, urls |-> urls]
          ELSE ExtendFrom(namelist, i + 1, depth, crawls, urls \o r.urls)

find_startups(names, depth, crawls) ==
  /\ Calls("find_startups")
  /\ LET r == ExtendFrom(NamesList(names), 1, depth, crawls, startup_urls)
     IN /\ Len(r.urls) <= MaxLen
        /\ startup_urls' = r.urls
        /\ Called("find_startups", r.exc)
  /\ obs' = [NoObs EXCEPT !.names = NamesList(names)]
  /\ UNCHANGED <<startups, file>>
  /\ UNCHANGED locvars

\* lines 109-111: the loop over startup_urls from position i on; a url without a
\* name raises IndexError in Startup.__init__ and keeps what was appended
RECURSIVE AppendFrom(_, _, _)
AppendFrom(urls, i, list) ==
  IF i > Len(urls) THEN [exc |-> "none", list |-> list]
  ELSE IF ~NameDerivable(urls[i]) THEN [exc |-> "IndexError", list |-> list]
  ELSE AppendFrom(urls, i + 1, Append(list, NewStartup(urls[i])))

\* the assertion left out
HasUrlsUnchecked(urls) == TRUE

\* line 103
HasUrls(urls) == Len(urls) > 0

create_startups ==
  /\ Calls("create_startups")
  /\ LET r == IF ~HasUrls(startup_urls)
              THEN [exc |-> "AssertionError", list |-> startups]
              ELSE AppendFrom(startup_urls, 1, startups)
     IN /\ Len(r.list) <= MaxLen
        /\ startups' = r.list
        /\ Called("create_startups", r.exc)
  /\ obs' = NoObs
  /\ UNCHANGED <<startup_urls, file>>
  /\ UNCHANGED locvars

(***************************************************************************)
(* Startup.find_jobs.                                                      *)
(***************************************************************************)
\* keywords, and the visible text of job pages
KwMl == <<"m","l">>
KwAi == <<"a",".","i">>
TextMl == <<"M","L">>
TextAxiMl == <<"a","x","i"," ","m","l">>

\* the arguments callers pass
LinkTextArgs == {<<"Job">>, <<"Job", "job", "career">>, <<"Join", "career">>}
KeywordArgs == {<<KwMl>>, <<KwAi, KwMl>>}

\* the retry budgets of the lookups of a link (line 193) and of the body (line 211)
LinkRetry == 10
BodyRetry == 10

\* get_attribute('href') of an anchor without one: None (falsy, as '' is)
NoneHref == <<>>

\* the stub web, homepages: for a link text, the number of times the lookup by
\* partial link text raises before it succeeds, and the href of the anchor found
Homepage(url, link_text) ==
  CASE url = UrlA /\ link_text \in {"Job", "job"} -> [failures |-> 0, href |-> JobsUrl]
    [] url = UrlA /\ link_text = "career" -> [failures |-> LinkRetry - 1, href |-> CareerUrl]
    [] url = UrlA /\ link_text = "Join" -> [failures |-> 0, href |-> NoneHref]
    [] url = UrlB /\ link_text = "Job" -> [failures |-> 0, href |-> DeadUrl]
    [] url = UrlB /\ link_text = "career" -> [failures |-> 0, href |-> CareerUrl]
    [] OTHER -> [failures |-> LinkRetry, href |-> NoneHref]

\* the stub web, job pages: the failures of the lookup of the body, and its text
PageBody(link) ==
  CASE link = JobsUrl -> [failures |-> 0, text |-> TextMl]
    [] link = CareerUrl -> [failures |-> BodyRetry - 1, text |-> TextAxiMl]
    [] OTHER -> [failures |-> BodyRetry, text |-> <<>>]

\* re.findall(keyword, text) is non-empty: the keyword is the pattern, in which
\* "." matches any character (the texts hold no newline) and the other
\* characters used here match themselves
re_findall(keyword, text) ==
  \E p \in 1..(Len(text) - Len(keyword) + 1) :
    \A j \in 1..Len(keyword) : keyword[j] = "." \/ keyword[j] = text[p + j - 1]

\* Startup._get_frontpage_links from position n of link_texts on: the href of
\* every element found is appended to links
RECURSIVE _get_frontpage_links(_, _, _, _)
_get_frontpage_links(url, link_texts, n, links) ==
  IF n > Len(link_texts) THEN links
  ELSE LET a == Homepage(url, link_texts[n])
       IN _get_frontpage_links(url, link_texts, n + 1,
            IF find_element_(a.failures, LinkRetry) # "None"
            THEN Append(links, a.href) ELSE links)

\* the orders in which the set of links may be iterated, as orders of all job
\* pages: a homepage of the stub web links to at most two job pages, and these
\* two orders put any two pages both ways round
IterationOrders == {<<JobsUrl, CareerUrl, DeadUrl>>, <<DeadUrl, CareerUrl, JobsUrl>>}

\* line 207: list(filter(None, set(links))); the set is iterated in the order
\* the position of its members in perm gives
JobPageLinks(links, perm) ==
  SelectSeq(perm, LAMBDA u : u # NoneHref /\ \E n \in 1..Len(links) : links[n] = u)

\* the entry is set anew on every hit instead of appended to
AddFindOverwrite(finds, keyword, link) ==
  IF \E n \in 1..Len(finds) : finds[n].key = keyword
  THEN [n \in 1..Len(finds) |->
          IF finds[n].key = keyword
          THEN [finds[n] EXCEPT !.urls = <<link>>] ELSE finds[n]]
  ELSE Append(finds, [key |-> keyword, urls |-> <<link>>])

\* lines 216-220: append to finds[keyword], creating the entry on a KeyError.
\* finds is the dict in insertion order: a sequence of [key, urls]
AddFind(finds, keyword, link) ==
  IF \E n \in 1..Len(finds) : finds[n].key = keyword
  THEN [n \in 1..Len(finds) |->
          IF finds[n].key = keyword
          THEN [finds[n] EXCEPT !.urls = Append(@, link)] ELSE finds[n]]
  ELSE Append(finds, [key |-> keyword, urls |-> <<link>>])

\* lines 213-220: the loop over the keywords from position j on
RECURSIVE ScanKeywords(_, _, _, _, _)
ScanKeywords(keywords, j, text, link, finds) ==
  IF j > Len(keywords) THEN finds
  ELSE ScanKeywords(keywords, j + 1, text, link,
                    IF re_findall(keywords[j], text)
                    THEN AddFind(finds, keywords[j], link) ELSE finds)

\* lines 208-220: the loop over the job page links from position n on; the body
\* that find_element_ did not find is None, and None.text raises AttributeError
RECURSIVE VisitFrom(_, _, _, _)
VisitFrom(links, n, keywords, finds) ==
  IF n > Len(links) THEN [exc |-> "none", finds |-> finds]
  ELSE LET body == PageBody(links[n])
       IN IF find_element_(body.failures, BodyRetry) = "None"
          THEN [exc |-> "AttributeError", finds |-> finds]
          ELSE VisitFrom(links, n + 1, keywords,
                         ScanKeywords(keywords, 1, lower(body.text), links[n], finds))

\* Startup.find_jobs on the Startup s: the exception raised and the new finds
FindJobs(s, link_texts, keywords, perm) ==
  VisitFrom(JobPageLinks(_get_frontpage_links(s.url, link_texts, 1, <<>>), perm), 1,
            keywords, s.finds)

\* Startup.has_job
has_job(s) == Len(s.finds) > 0

\* a caller calls find_jobs on the i-th Startup of the collection
find_jobs(i, link_texts, keywords, perm) ==
  /\ Calls("find_jobs")
  /\ LET r == FindJobs(startups[i], link_texts, keywords, perm)
     IN /\ startups' = [startups EXCEPT ![i].finds = r.finds]
        /\ Called("find_jobs", r.exc)
  /\ obs' = [target |-> i, names |-> <<>>, link_texts |-> link_texts,
             keywords |-> keywords, fresh |-> (startups[i].finds = <<>>)]
  /\ UNCHANGED <<startup_urls, file>>
  /\ UNCHANGED locvars

(***************************************************************************)
(* StartupList.scrape_startups and save_results.                           *)
(***************************************************************************)
\* lines 125-126: the loop over the collection from position i on; an exception
\* of find_jobs ends it
RECURSIVE ScrapeFrom(_, _, _, _, _)
ScrapeFrom(list, i, link_texts, keywords, perms) ==
  IF i > Len(list) THEN [exc |-> "none", list |-> list]
  ELSE LET r == FindJobs(list[i], link_texts, keywords, perms[i])
           next == [list EXCEPT ![i].finds = r.finds]
       IN IF r.exc # "none" THEN [exc |-> r.exc, list |-> next]
          ELSE ScrapeFrom(next, i + 1, link_texts, keywords, perms)

scrape_startups(link_texts, keywords, perms) ==
  /\ Calls("scrape_startups")
  /\ LET r == ScrapeFrom(startups, 1, link_texts, keywords, perms)
     IN /\ startups' = r.list
        /\ Called("scrape_startups", r.exc)
  /\ obs' = NoObs
  /\ UNCHANGED <<startup_urls, file>>
  /\ UNCHANGED locvars

\* ','.join([name, keyword, url])
Join(name, keyword, url) == name \o <<",">> \o keyword \o <<",">> \o url

RECURSIVE Flatten(_)
Flatten(ss) == IF ss = <<>> THEN <<>> ELSE Head(ss) \o Flatten(Tail(ss))

\* one line per entry only: the inner loop over the urls left out
ResultLinesFirstUrl(list) ==
  Flatten([i \in 1..Len(list) |->
    [j \in 1..Len(list[i].finds) |->
      Join(list[i].name, list[i].finds[j].key, list[i].finds[j].urls[1])]])

\* lines 136-137: one line per url of every entry of every Startup's finds
ResultLines(list) ==
  Flatten([i \in 1..Len(list) |->
    Flatten([j \in 1..Len(list[i].finds) |->
      [l \in 1..Len(list[i].finds[j].urls) |->
        Join(list[i].name, list[i].finds[j].key, list[i].finds[j].urls[l])]])])

\* lines 139-142: the file is opened with 'w' and the lines are written
save_results ==
  /\ Calls("save_results")
  /\ file' = [written |-> TRUE, lines |-> ResultLines(startups)]
  /\ Called("save_results", "none")
  /\ obs' = NoObs
  /\ UNCHANGED <<startup_urls, startups>>
  /\ UNCHANGED locvars

(***************************************************************************)
(* Specifications.                                                         *)
(***************************************************************************)
LocatorIdle ==
  /\ retry = 1 /\ k = 0 /\ always = FALSE
  /\ cycle = 1 /\ lookups = 0 /\ lpc = "idle" /\ element = "unset"

\* the state after StartupList() (lines 77-79), before the caller's first call
NewStartupList ==
  /\ startup_urls = <<>>
  /\ startups = <<>>
  /\ file = [written |-> FALSE, lines |-> <<>>]
  /\ raised = "none"
  /\ op = "__init__"
  /\ obs = NoObs
  /\ calls = 0

Init ==
  /\ LocatorIdle
  /\ NewStartupList
  /\ pc \in {"interactive", "line5"}

Next ==
  \/ \E m \in {"locate_startups"} : CallUndefined(m)
  \/ \E names \in NamesArgs, depth \in Depths :
       \E crawls \in CrawlsFor(NamesList(names), depth) :
         find_startups(names, depth, crawls)
  \/ create_startups
  \/ \E i \in 1..Len(startups), link_texts \in LinkTextArgs, keywords \in KeywordArgs :
       \E perm \in IterationOrders :
         find_jobs(i, link_texts, keywords, perm)
  \/ \E link_texts \in LinkTextArgs, keywords \in KeywordArgs :
       \E perms \in [1..Len(startups) -> IterationOrders] :
         scrape_startups(link_texts, keywords, perms)
  \/ save_results

Spec == Init /\ [][Next]_vars

\* a run of find_element_ against a stubbed lookup
InitLocator ==
  /\ retry \in 0..MaxRetry
  /\ \/ always = FALSE /\ k \in 0..MaxFails
     \/ always = TRUE /\ k = 0
  /\ cycle = 1 /\ lookups = 0 /\ lpc = "loop" /\ element = "unset"
  /\ NewStartupList
  /\ pc = "interactive"

NextLocator ==
  \/ LookupFound
  \/ NotFoundGiveUp
  \/ NotFoundRetry

SpecLocator == InitLocator /\ [][NextLocator]_vars

(***************************************************************************)
(* Notions the properties are stated with.                                 *)
(***************************************************************************)
IsPrefix(a, b) == Len(a) <= Len(b) /\ SubSeq(b, 1, Len(a)) = a

\* k occurs in t as a substring
IsSubstring(sub, t) ==
  \E p \in 1..(Len(t) - Len(sub) + 1) : SubSeq(t, p, p + Len(sub) - 1) = sub

\* how often u occurs in the sequence q
Occurrences(q, u) == Cardinality({n \in 1..Len(q) : q[n] = u})

\* the url sequence of keyword in finds (empty without an entry)
UrlsOf(finds, keyword) ==
  IF \E n \in 1..Len(finds) : finds[n].key = keyword
  THEN (CHOOSE e \in {finds[n] : n \in 1..Len(finds)} : e.key = keyword).urls
  ELSE <<>>
HasEntry(finds, keyword) == \E n \in 1..Len(finds) : finds[n].key = keyword

\* the job pages the homepage of url shows for the link texts: the non-null hrefs
\* of the anchors a lookup finds within its budget
LinksShown(url, link_texts) ==
  {Homepage(url, link_texts[n]).href :
     n \in {m \in 1..Len(link_texts) : Homepage(url, link_texts[m]).failures < LinkRetry}}
    \ {NoneHref}

\* the body of a job page is found within the budget of its lookup
BodyShown(link) == PageBody(link).failures < BodyRetry

\* the Startup and the arguments of the last find_jobs
Target == startups[obs.target]
KeywordsGiven == {obs.keywords[n] : n \in 1..Len(obs.keywords)}

(***************************************************************************)
(* Driver.find_element_ (specification SpecLocator).                       *)
(***************************************************************************)
\* C1: against a lookup that raises on its first k calls and then succeeds,
\* find_element_ with budget retry returns the element if and only if k < retry,
\* and None whenever k >= retry.
C1_ElementIffWithinBudget ==
  (lpc = "returned" /\ ~always) =>
    /\ element = "element" <=> k < retry
    /\ k >= retry => element = "None"

\* C2: against a lookup that raises on every call, find_element_ makes at most
\* retry lookups and what it returns is None, for every budget from 0 on.
C2_AtMostRetryLookups ==
  always =>
    /\ lookups <= retry
    /\ lpc = "returned" => element = "None"

(***************************************************************************)
(* StartupList and Startup (specification Spec).                           *)
(***************************************************************************)
\* C3: a call of create_startups with startup_urls empty raises the assertion
\* error and leaves the collection and startup_urls as they were; with a url in
\* startup_urls it does not raise the assertion error.
C3_CreateNeedsUrls ==
  [][(op' = "create_startups" /\ calls' = calls + 1) =>
       IF startup_urls = <<>>
       THEN raised' = "AssertionError" /\ startups' = startups /\ startup_urls' = <<>>
       ELSE raised' # "AssertionError"]_vars

C3_Witness ==
  /\ op = "create_startups" /\ raised = "AssertionError"
  /\ startup_urls = <<>> /\ startups = <<>>

\* C4: the call locate_startups of the orchestrator returns, and the script's
\* sequence locate_startups, create_startups, scrape_startups, save_results is
\* never cut short by an exception.
C4_ScriptRunsEveryStage ==
  /\ op = "locate_startups" => raised = "none"
  /\ pc # "aborted"

\* the urls of the finds of the collection, as <<place of the Startup, place of
\* the entry in its finds, place of the url in the entry>>
Entries ==
  UNION {UNION {{<<i, j, l>> : l \in 1..Len(startups[i].finds[j].urls)} :
                  j \in 1..Len(startups[i].finds)} :
           i \in 1..Len(startups)}

EntriesBefore(e) ==
  {d \in Entries :
     \/ d[1] < e[1]
     \/ d[1] = e[1] /\ d[2] < e[2]
     \/ d[1] = e[1] /\ d[2] = e[2] /\ d[3] < e[3]}

IsLineOf(line, e) ==
  LET s == startups[e[1]]
      name == s.name
      keyword == s.finds[e[2]].key
      url == s.finds[e[2]].urls[e[3]]
  IN /\ Len(line) = Len(name) + Len(keyword) + Len(url) + 2
     /\ SubSeq(line, 1, Len(name)) = name
     /\ line[Len(name) + 1] = ","
     /\ SubSeq(line, Len(name) + 2, Len(name) + 1 + Len(keyword)) = keyword
     /\ line[Len(name) + Len(keyword) + 2] = ","
     /\ SubSeq(line, Len(name) + Len(keyword) + 3, Len(line)) = url

\* C5: save_results can be called in every state, raises nothing and writes
\* exactly one line name,keyword,url for every url of every entry of every
\* Startup's finds: as many lines as there are such urls (none when there is no
\* find), the line of a url standing after the lines of all urls of earlier
\* Startups, of earlier entries of its Startup and of earlier urls of its entry.
C5_SaveWritesEveryFind ==
  /\ Calls("save_results") => ENABLED save_results
  /\ op = "save_results" =>
    /\ raised = "none"
    /\ file.written
    /\ Len(file.lines) = Cardinality(Entries)
    /\ \A e \in Entries : IsLineOf(file.lines[Cardinality(EntriesBefore(e)) + 1], e)

C5_Witness ==
  /\ op = "save_results"
  /\ Len(startups) >= 2
  /\ Len(startups[1].finds) >= 2
  /\ \E j \in 1..Len(startups[1].finds) : Len(startups[1].finds[j].urls) >= 2
  /\ startups[2].finds # <<>>
  /\ Len(file.lines) >= 4

\* C6: find_jobs and scrape_startups raise nothing when the body of a job page
\* stays absent: the page is skipped, and every other job page the homepage
\* shows is still searched, so each keyword occurring in its text has it.
C6_AbsentBodySkipped ==
  /\ op \in {"find_jobs", "scrape_startups"} => raised = "none"
  /\ (op = "find_jobs" /\ obs.fresh) =>
       \A u \in LinksShown(Target.url, obs.link_texts), kw \in KeywordsGiven :
         (BodyShown(u) /\ IsSubstring(kw, lower(PageBody(u).text)))
           => Occurrences(UrlsOf(Target.finds, kw), u) = 1

\* C7: find_startups for the source startupsbe raises nothing (its crawl is
\* empty), and for a name that is no source it raises the unknown-source error.
C7_StartupsbeCrawlsEmpty ==
  op = "find_startups" =>
    /\ obs.names = <<"startupsbe">> => raised = "none"
    /\ obs.names = <<"crunchbase">> => raised = "KeyError"

\* the job pages shown to the last find_jobs whose lower-cased text holds kw
HitsOf(kw) ==
  {u \in LinksShown(Target.url, obs.link_texts) :
     IsSubstring(kw, lower(PageBody(u).text))}

\* C8: after find_jobs on a Startup without finds, a job page the homepage shows
\* occurs in the finds of a keyword exactly once if the keyword is a substring
\* of the page's lower-cased text and not at all otherwise; a keyword without a
\* hit has no entry; has_job is true iff some keyword had a hit.
C8_FindsAreSubstringHits ==
  (op = "find_jobs" /\ raised = "none" /\ obs.fresh) =>
    /\ \A kw \in KeywordsGiven, u \in LinksShown(Target.url, obs.link_texts) :
         Occurrences(UrlsOf(Target.finds, kw), u) = IF u \in HitsOf(kw) THEN 1 ELSE 0
    /\ \A kw \in KeywordsGiven : HasEntry(Target.finds, kw) <=> HitsOf(kw) # {}
    /\ has_job(Target) <=> \E kw \in KeywordsGiven : HitsOf(kw) # {}

\* every entry of the finds f is an entry of g, with its urls as a prefix
Grows(f, g) ==
  \A n \in 1..Len(f) : HasEntry(g, f[n].key) /\ IsPrefix(f[n].urls, UrlsOf(g, f[n].key))

\* C9: in every step, every Startup of the collection keeps its place and its
\* name, every entry of its finds stays and its url sequence is extended at the
\* end only, and a find_jobs on one Startup leaves the others as they were.
C9_FindsOnlyGrow ==
  [][\A i \in 1..Len(startups) :
       /\ i <= Len(startups')
       /\ startups'[i].name = startups[i].name
       /\ Grows(startups[i].finds, startups'[i].finds)
       /\ (op' = "find_jobs" /\ calls' = calls + 1 /\ obs'.target # i)
            => startups'[i] = startups[i]]_vars

C9_Witness ==
  /\ op = "find_jobs" /\ ~obs.fresh
  /\ Len(startups) >= 2
  /\ \E j \in 1..Len(Target.finds) : Len(Target.finds[j].urls) >= 3

\* C10: after a create_startups that returned, the collection holds exactly one
\* Startup for every entry of startup_urls, in the same order.
C10_OneStartupPerUrl ==
  (op = "create_startups" /\ raised = "none") =>
    /\ Len(startups) = Len(startup_urls)
    /\ \A i \in 1..Len(startups) : startups[i].url = startup_urls[i]

====
